---- MODULE Spec2Model ----
(***************************************************************************)
(* idem_monoid: generation of the free idempotent monoid on n letters,     *)
(* reduction of a word to its canonical form, and the derivation (chain of *)
(* squarings and unsquarings) that justifies the reduction.                *)
(*                                                                         *)
(* A Word is a sequence of symbols (u8 values, 0-based).  A String is a    *)
(* sequence of byte codes.  Rust indices are 0-based: the slice            *)
(* word[a..b] is SubSeq(word, a + 1, b).                                   *)
(***************************************************************************)
EXTENDS Integers, Sequences, FiniteSets, TLC

\* Largest alphabet size handed to the generator and the reducer
\* (the default of --generators).
DefaultGenerators == 3

\* Longest input word handed to reduce.
MaxLen == 6

\* Longest operand handed to merge directly.
MaxMergeLen == 3

\* Longest string given to --reduce.
MaxInputLen == 2

\* Longest argument handed to find_u directly.
MaxFindLen == 3

\* Longest argument handed to remove_middle directly.
MaxMiddleLen == 2

\* Most words registered in a Union, their alphabet and their length.
MaxKeys == 3
UnionLetters == 2
MaxKeyLen == 2

\* Byte codes of the characters the program writes.
ByteA == 97
LParen == 40
RParen == 41
\* Radix of char::from_digit in sym_to_c.
Radix == 36
\* Width of a Sym (u8).
SymModulus == 256

----------------------------------------------------------------------------
(* Values standing for an aborted (panicked) computation. *)

\* An index that no computation returns: the function panicked.
NoIndex == -1
\* A word that no computation returns: the function panicked.
NoWord == <<-1>>
\* The Steps value of a computation that panicked.
PANIC == [start |-> NoWord, end |-> NoWord, steps |-> <<>>]

IsPanic(s) == s.start = NoWord

----------------------------------------------------------------------------
(* Types and utilities *)

Min(S) == CHOOSE x \in S : \A y \in S : x <= y
Max(S) == CHOOSE x \in S : \A y \in S : x >= y

Range(f) == {f[i] : i \in DOMAIN f}

RECURSIVE Reverse(_)
Reverse(s) == IF s = <<>> THEN <<>> ELSE Reverse(Tail(s)) \o <<Head(s)>>

\* char::from_digit(i + 10, 36).unwrap(): 10 + i is a letter digit of
\* radix 36 when it is below 36; NoIndex stands for the failed unwrap.
sym_to_c(i) == IF i + 10 < Radix THEN ByteA + i ELSE NoIndex

word_to_str(v) == [k \in 1..Len(v) |-> sym_to_c(v[k])]

\* c - b'a' on bytes, returned as a u8.
str_to_word(s) == [k \in 1..Len(s) |-> (s[k] - ByteA) % SymModulus]

\* str_to_word under the build's integer-overflow behaviour: with overflow
\* checks (a debug build) c - b'a' panics on a byte below b'a', without
\* them (a release build) it wraps around.
str_to_word_in_build(s, overflow_checks) ==
  IF overflow_checks /\ \E k \in 1..Len(s) : s[k] < ByteA
  THEN NoWord
  ELSE str_to_word(s)

RECURSIVE chain(_)
chain(words) ==
  IF words = <<>> THEN <<>> ELSE Head(words) \o chain(Tail(words))

----------------------------------------------------------------------------
(* Monoid generation *)

\* merge scanning the overlaps from the shortest: the zero-length overlap
\* always matches first.
merge_scan_shortest_first(left, right, idx) == Len(left)

\* The loop of merge: the first idx in from..l_len at which the rest of
\* left equals the prefix of right of the same length.
RECURSIVE merge_scan(_, _, _)
merge_scan(left, right, idx) ==
  IF idx > Len(left) THEN NoIndex
  ELSE IF SubSeq(left, idx + 1, Len(left)) = SubSeq(right, 1, Len(left) - idx)
       THEN idx
       ELSE merge_scan(left, right, idx + 1)

\* merge starting one position after the biggest possible overlap.
merge_start_off_by_one(left, right) ==
  IF Len(right) > Len(left) THEN 0 ELSE Len(left) - Len(right) + 1

merge_start(left, right) ==
  IF Len(right) > Len(left) THEN 0 ELSE Len(left) - Len(right)

merge(left, right) ==
  LET idx == merge_scan(left, right, merge_start(left, right))
  IN  IF idx = NoIndex
      THEN NoWord
      ELSE chain(<<SubSeq(left, 1, idx), right>>)

\* variants_on shifting only the symbols above the missing letter.
variants_on_strict(words, n_letters) ==
  LET nw == Len(words)
      shift(word, i) == [k \in 1..Len(word) |->
                           word[k] + (IF word[k] > i THEN 1 ELSE 0)]
  IN  [p \in 1..(n_letters * nw) |->
         LET i == (p - 1) \div nw
             j == ((p - 1) % nw) + 1
         IN  <<shift(words[j], i), i>>]

\* One (word, missing letter) pair per letter i and word, letter-major.
variants_on(words, n_letters) ==
  LET nw == Len(words)
      shift(word, i) == [k \in 1..Len(word) |->
                           word[k] + (IF word[k] >= i THEN 1 ELSE 0)]
  IN  [p \in 1..(n_letters * nw) |->
         LET i == (p - 1) \div nw
             j == ((p - 1) % nw) + 1
         IN  <<shift(words[j], i), i>>]

RECURSIVE generate_exact_monoid(_)
generate_exact_monoid(n_letters) ==
  IF n_letters = 0 THEN << <<>> >>
  ELSE
    LET shorter_words == generate_exact_monoid(n_letters - 1)
        various == variants_on(shorter_words, n_letters)
        nv == Len(various)
    IN  [p \in 1..(nv * nv) |->
           LET lv == various[((p - 1) \div nv) + 1]
               rv == various[((p - 1) % nv) + 1]
               left == chain(<<lv[1], <<lv[2]>> >>)
               right == chain(<< <<rv[2]>>, rv[1] >>)
           IN  merge(left, right)]

\* combinations_with_replacement in place of combinations.
RECURSIVE combinations_with_replacement(_, _, _)
combinations_with_replacement(lo, n, k) ==
  IF k = 0 THEN << <<>> >>
  ELSE IF lo >= n THEN <<>>
  ELSE LET rest == combinations_with_replacement(lo, n, k - 1)
           with == [p \in 1..Len(rest) |-> <<lo>> \o rest[p]]
       IN  with \o combinations_with_replacement(lo + 1, n, k)

\* (0..n).combinations(k) of itertools: the increasing selections of k
\* of the values lo..n-1, in lexicographic order.
RECURSIVE combinations(_, _, _)
combinations(lo, n, k) ==
  IF k = 0 THEN << <<>> >>
  ELSE IF n - lo < k THEN <<>>
  ELSE LET rest == combinations(lo + 1, n, k - 1)
           with == [p \in 1..Len(rest) |-> <<lo>> \o rest[p]]
       IN  with \o combinations(lo + 1, n, k)

relabel(words, comb) ==
  [p \in 1..Len(words) |->
     [k \in 1..Len(words[p]) |-> comb[words[p][k] + 1]]]

RECURSIVE relabel_all(_, _)
relabel_all(words, combs) ==
  IF combs = <<>> THEN <<>>
  ELSE relabel(words, Head(combs)) \o relabel_all(words, Tail(combs))

RECURSIVE generate_monoid_from(_, _)
generate_monoid_from(i, n_letter) ==
  IF i > n_letter THEN <<>>
  ELSE relabel_all(generate_exact_monoid(i), combinations(0, n_letter, i))
         \o generate_monoid_from(i + 1, n_letter)

generate_monoid(n_letter) == generate_monoid_from(0, n_letter)

----------------------------------------------------------------------------
(* Steps: a sequence of squaring/unsquaring steps from start to end.      *)
(* Each step is a pair <<before, after>> of Strings.                      *)

\* word_to_str succeeds on every symbol of the word.
Renderable(word) == \A k \in 1..Len(word) : sym_to_c(word[k]) # NoIndex

Steps_empty(w) == [start |-> w, end |-> w, steps |-> <<>>]

\* Represents a step from w to ww.
Steps_square(m) ==
  LET mw == chain(m)
      m2w == chain(<<mw, mw>>)
      m1s == word_to_str(mw)
      m2s == word_to_str(m2w)
  IN  IF ~Renderable(mw) THEN PANIC
      ELSE [start |-> mw,
            end |-> m2w,
            steps |-> << << <<LParen>> \o m1s \o <<RParen>>,
                            <<LParen>> \o m2s \o <<RParen>> >> >>]

\* The loop of join: end is the end of the steps joined so far.
RECURSIVE join_loop(_, _, _, _)
join_loop(list, k, end, steps) ==
  IF k > Len(list) THEN [end |-> end, steps |-> steps]
  ELSE IF end # list[k].start THEN [end |-> NoWord, steps |-> <<>>]
  ELSE join_loop(list, k + 1, list[k].end, steps \o list[k].steps)

Steps_join(list) ==
  IF list = <<>> THEN PANIC
  ELSE IF \E k \in 1..Len(list) : IsPanic(list[k]) THEN PANIC
  ELSE LET start == list[1].start
           res == join_loop(list, 1, start, <<>>)
       IN  IF res.end = NoWord THEN PANIC
           ELSE [start |-> start, end |-> res.end, steps |-> res.steps]

Steps_prefix(words, s) ==
  LET word == chain(words)
      str == word_to_str(word)
  IN  IF IsPanic(s) \/ ~Renderable(word) THEN PANIC
      ELSE [start |-> chain(<<word, s.start>>),
            end |-> chain(<<word, s.end>>),
            steps |-> [k \in 1..Len(s.steps) |->
                         <<str \o s.steps[k][1], str \o s.steps[k][2]>>]]

Steps_suffix(s, words) ==
  LET word == chain(words)
      str == word_to_str(word)
  IN  IF IsPanic(s) \/ ~Renderable(word) THEN PANIC
      ELSE [start |-> chain(<<s.start, word>>),
            end |-> chain(<<s.end, word>>),
            steps |-> [k \in 1..Len(s.steps) |->
                         <<s.steps[k][1] \o str, s.steps[k][2] \o str>>]]

\* time_rev reversing the order of the steps without swapping the two
\* sides of each step.
Steps_time_rev_no_swap(s) ==
  IF IsPanic(s) THEN PANIC
  ELSE LET n == Len(s.steps)
       IN  [start |-> s.end,
            end |-> s.start,
            steps |-> [k \in 1..n |-> s.steps[n + 1 - k]]]

\* Steps for the reverse operation.
Steps_time_rev(s) ==
  IF IsPanic(s) THEN PANIC
  ELSE LET n == Len(s.steps)
       IN  [start |-> s.end,
            end |-> s.start,
            steps |-> [k \in 1..n |->
                         <<s.steps[n + 1 - k][2], s.steps[n + 1 - k][1]>>]]

\* backwards reversing the characters without swapping the brackets.
backwards_no_swap(str) ==
  LET n == Len(str)
  IN  [k \in 1..n |-> str[n + 1 - k]]

backwards(str) ==
  LET n == Len(str)
      swap(c) == IF c = RParen THEN LParen
                 ELSE IF c = LParen THEN RParen
                 ELSE c
  IN  [k \in 1..n |-> swap(str[n + 1 - k])]

\* Steps for the word written backwards.
Steps_word_rev(s) ==
  IF IsPanic(s) THEN PANIC
  ELSE [start |-> Reverse(s.start),
        end |-> Reverse(s.end),
        steps |-> [k \in 1..Len(s.steps) |->
                     <<backwards(s.steps[k][1]), backwards(s.steps[k][2])>>]]

----------------------------------------------------------------------------
(* Core reduction algorithm, from Lothaire. *)

\* l.iter().enumerate().rev().find(sym): the last index of sym in l.
rfind(l, sym) ==
  LET hits == {k \in 1..Len(l) : l[k] = sym}
  IN  IF hits = {} THEN NoIndex ELSE Max(hits) - 1

\* The loop of find_u over y[k..]: l is the word left of the insertion
\* point, r the word to the right.
RECURSIVE find_u_loop(_, _, _, _, _)
find_u_loop(l, r, steps, y, k) ==
  IF k > Len(y) THEN [steps |-> Steps_join(steps), word |-> r]
  ELSE
    LET sym == y[k]
        repeat_point == rfind(l, sym)
    IN  IF repeat_point = NoIndex THEN [steps |-> PANIC, word |-> NoWord]
        ELSE
          LET step == Steps_suffix(
                        Steps_prefix(<<SubSeq(l, 1, repeat_point)>>,
                                     Steps_square(<<SubSeq(l, repeat_point + 1, Len(l))>>)),
                        <<r>>)
          IN  find_u_loop(Append(l, sym),
                          chain(<<SubSeq(l, repeat_point + 2, Len(l)), r>>),
                          Append(steps, step), y, k + 1)

\* Given x, y, alph(y) <= alph(x), find u s.t. x ~ xyu, and the steps
\* to go from x to xyu.
find_u(x, y) == find_u_loop(x, <<>>, <<>>, y, 1)

\* Given x, y, alph(y) <= alph(x), find v s.t. x ~ vyx.
find_v(x, y) ==
  LET xr == Reverse(x)
      yr == Reverse(y)
      res == find_u(xr, yr)
  IN  IF IsPanic(res.steps) THEN res
      ELSE [steps |-> Steps_word_rev(res.steps), word |-> Reverse(res.word)]

\* remove_middle choosing u for L ~ LMu instead of L ~ LMRu.
remove_middle_forgot_r(l, m, r) ==
  LET fu == find_u(l, m)
      fv == find_v(r, l)
  IN  IF IsPanic(fu.steps) \/ IsPanic(fv.steps) THEN PANIC
      ELSE
        LET l_to_lmru == fu.steps
            u == fu.word
            lmru_to_l == Steps_time_rev(l_to_lmru)
            r_to_vlr == fv.steps
            v == fv.word
            vlr_to_r == Steps_time_rev(r_to_vlr)
        IN  Steps_join(<<
              Steps_prefix(<<l, m>>, r_to_vlr),
              Steps_prefix(<<l, m, v>>, Steps_square(<<l, r>>)),
              Steps_prefix(<<l, m>>, Steps_suffix(vlr_to_r, <<l, r>>)),
              Steps_prefix(<<l, m, r>>, Steps_suffix(l_to_lmru, <<r>>)),
              Steps_time_rev(Steps_suffix(Steps_square(<<l, m, r>>), <<u, r>>)),
              Steps_suffix(lmru_to_l, <<r>>)
            >>)

\* The six fragments remove_middle joins, or the empty list when find_u
\* or find_v aborted.
remove_middle_parts(l, m, r) ==
  LET fu == find_u(l, chain(<<m, r>>))
  IN  IF IsPanic(fu.steps) THEN <<>>
      ELSE
        LET l_to_lmru == fu.steps
            u == fu.word
            lmru_to_l == Steps_time_rev(l_to_lmru)
            fv == find_v(r, l)
        IN  IF IsPanic(fv.steps) THEN <<>>
            ELSE
              LET r_to_vlr == fv.steps
                  v == fv.word
                  vlr_to_r == Steps_time_rev(r_to_vlr)
              IN  <<
                    \* LM(R) -> LM(vLR)
                    Steps_prefix(<<l, m>>, r_to_vlr),
                    \* LMv(LR) -> LMv(LRLR)
                    Steps_prefix(<<l, m, v>>, Steps_square(<<l, r>>)),
                    \* LM(vLR)LR -> LM(R)LR
                    Steps_prefix(<<l, m>>, Steps_suffix(vlr_to_r, <<l, r>>)),
                    \* LMR(L)R -> LMR(LMRu)R
                    Steps_prefix(<<l, m, r>>, Steps_suffix(l_to_lmru, <<r>>)),
                    \* (LMRLMR)uR -> (LMR)uR
                    Steps_time_rev(Steps_suffix(Steps_square(<<l, m, r>>), <<u, r>>)),
                    \* (LMRu)R -> LR
                    Steps_suffix(lmru_to_l, <<r>>)
                  >>

\* Convert a string from LMR to LR.
remove_middle(l, m, r) ==
  LET parts == remove_middle_parts(l, m, r)
  IN  IF parts = <<>> THEN PANIC ELSE Steps_join(parts)

----------------------------------------------------------------------------
(* Word reduction *)

\* Number of distinct letters of word[from..to] (1-based, inclusive).
distinct(word, from, to) == Cardinality({word[k] : k \in from..to})

\* Length of the longest left subword using n distinct letters: the first
\* index at which n + 1 distinct letters have been seen.
find_left_subword(word, n) ==
  LET hits == {idx \in 0..(Len(word) - 1) : distinct(word, 1, idx + 1) = n + 1}
  IN  IF hits = {} THEN NoIndex ELSE Min(hits)

\* Index of the start of the longest right subword using n distinct
\* letters.
find_right_subword(word, n) ==
  LET hits == {idx \in 0..(Len(word) - 1) :
                 distinct(word, idx + 1, Len(word)) = n + 1}
  IN  IF hits = {} THEN NoIndex ELSE Max(hits) + 1

\* The loop of reduce_middle skipping the biggest possible overlap.
reduce_middle_scan_skip_first(left, right, idx) ==
  LET scan(i) == SubSeq(left, i + 1, Len(left)) = SubSeq(right, 1, Len(left) - i)
      hits == {i \in (idx + 1)..(Len(left) - 1) : scan(i)}
  IN  IF hits = {} THEN NoIndex ELSE Min(hits)

\* Like merge, but returns steps.
RECURSIVE reduce_middle_scan(_, _, _)
reduce_middle_scan(left, right, idx) ==
  IF idx >= Len(left) THEN NoIndex
  ELSE IF SubSeq(left, idx + 1, Len(left)) = SubSeq(right, 1, Len(left) - idx)
       THEN idx
       ELSE reduce_middle_scan(left, right, idx + 1)

reduce_middle(left, right) ==
  LET l_len == Len(left)
      r_len == Len(right)
      start == IF r_len > l_len THEN 0 ELSE l_len - r_len
      idx == reduce_middle_scan(left, right, start)
  IN  IF idx = NoIndex THEN Steps_empty(chain(<<left, right>>))
      ELSE LET l == SubSeq(left, 1, idx)
               m == SubSeq(left, idx + 1, l_len)
               r == SubSeq(right, Len(m) + 1, r_len)
           IN  Steps_time_rev(
                 Steps_prefix(<<l>>, Steps_suffix(Steps_square(<<m>>), <<r>>)))

\* The tail of reduce without the collapse of the overlap after a middle
\* section was removed.
reduce_tail_no_collapse(word, n_letters, steps) ==
  LET l_len == find_left_subword(word, n_letters - 1) + 1
      l_word == SubSeq(word, 1, l_len)
      r_idx == find_right_subword(word, n_letters - 1) - 1
      r_word == SubSeq(word, r_idx + 1, Len(word))
  IN  IF l_len <= r_idx
      THEN IF l_len < r_idx
           THEN Steps_join(Append(steps,
                  remove_middle(l_word, SubSeq(word, l_len + 1, r_idx), r_word)))
           ELSE Steps_join(Append(steps, reduce_middle(l_word, r_word)))
      ELSE Steps_join(steps)

\* The tail of reduce treating adjacent left and right subwords as
\* overlapping ones (l_len < r_idx in place of l_len <= r_idx).
reduce_tail_strict(word, n_letters, steps) ==
  LET l_len == find_left_subword(word, n_letters - 1) + 1
      l_word == SubSeq(word, 1, l_len)
      r_idx == find_right_subword(word, n_letters - 1) - 1
      r_word == SubSeq(word, r_idx + 1, Len(word))
  IN  IF l_len < r_idx
      THEN Steps_join(steps \o
             <<remove_middle(l_word, SubSeq(word, l_len + 1, r_idx), r_word),
               reduce_middle(l_word, r_word)>>)
      ELSE Steps_join(steps)

\* The tail of reduce once the left and right subwords are reduced:
\* word is the end of the steps so far.
reduce_tail(word, n_letters, steps) ==
  LET fl == find_left_subword(word, n_letters - 1)
      fr == find_right_subword(word, n_letters - 1)
  IN  IF fl = NoIndex \/ fr = NoIndex THEN PANIC
      ELSE
        LET l_len == fl + 1
            l_word == SubSeq(word, 1, l_len)
            r_idx == fr - 1
            r_word == SubSeq(word, r_idx + 1, Len(word))
        IN  IF l_len <= r_idx
            THEN IF l_len < r_idx
                 THEN Steps_join(steps \o
                        <<remove_middle(l_word, SubSeq(word, l_len + 1, r_idx), r_word),
                          reduce_middle(l_word, r_word)>>)
                 ELSE Steps_join(Append(steps, reduce_middle(l_word, r_word)))
            ELSE Steps_join(steps)

\* Given a word, produces the steps that maximally shorten it to normal
\* form.
RECURSIVE reduce(_)
reduce(word) ==
  IF word = <<>> THEN Steps_empty(word)
  ELSE
    LET n_letters == Cardinality(Range(word))
        \* reduce_left
        llen == find_left_subword(word, n_letters - 1)
        left == IF llen = NoIndex THEN PANIC
                ELSE Steps_suffix(reduce(SubSeq(word, 1, llen)),
                                  <<SubSeq(word, llen + 1, Len(word))>>)
    IN  IF IsPanic(left) THEN PANIC
        ELSE
          LET word1 == left.end
              \* reduce_right
              rlen == find_right_subword(word1, n_letters - 1)
              right == IF rlen = NoIndex THEN PANIC
                       ELSE Steps_prefix(<<SubSeq(word1, 1, rlen)>>,
                                         reduce(SubSeq(word1, rlen + 1, Len(word1))))
          IN  IF IsPanic(right) THEN PANIC
              ELSE reduce_tail(right.end, n_letters, <<left, right>>)

----------------------------------------------------------------------------
(* The program as a state machine: the generator is run for an alphabet   *)
(* size, a word over that alphabet is reduced, and the reduced word is    *)
(* reduced again or the word is reduced with one of its squares removed;  *)
(* merge is also applied to a pair of words directly.                     *)

VARIABLES
  pc,            \* "start", "generated", "reduced", "again", "unsquared", "merged"
  generators,    \* the alphabet size (--generators)
  monoid,        \* the list returned by generate_monoid(generators)
  word,          \* the word handed to reduce (--reduce)
  steps,         \* reduce(word)
  again,         \* reduce(steps.end)
  shorter,       \* word with one occurrence of a square m.m replaced by m
  steps_shorter, \* reduce(shorter)
  left,          \* operands and result of a direct merge
  right,
  merged,
  input,           \* the string given to --reduce
  overflow_checks, \* whether the build checks integer overflow
  output,          \* the string main prints for the reduced word
  args,            \* the arguments of a direct call of find_u or remove_middle
  result,          \* what that call returned
  version,         \* the Union of "src" (src/src) or of "original" (src/original)
  rev_map,         \* Union::rev_map: the registered words, by key
  ptrs,            \* Union::ptrs: key to key
  sets,            \* what Union::to_sets returned
  linked           \* the pairs of keys that union was called with

mainVars == <<input, overflow_checks, output>>
callVars == <<args, result>>
unionVars == <<version, rev_map, ptrs, sets, linked>>

vars == <<pc, generators, monoid, word, steps, again, shorter, steps_shorter,
          left, right, merged, mainVars, callVars, unionVars>>

\* The words of length at most max_len over the letters 0..n-1.
Words(n, max_len) == UNION {[1..k -> 0..(n - 1)] : k \in 0..max_len}

Init ==
  /\ pc = "start"
  /\ generators = 0
  /\ monoid = <<>>
  /\ word = <<>>
  /\ steps = Steps_empty(<<>>)
  /\ again = Steps_empty(<<>>)
  /\ shorter = <<>>
  /\ steps_shorter = Steps_empty(<<>>)
  /\ left = <<>>
  /\ right = <<>>
  /\ merged = <<>>
  /\ input = <<>>
  /\ overflow_checks = FALSE
  /\ output = <<>>
  /\ args = <<>>
  /\ result = <<>>
  /\ version = "src"
  /\ rev_map = <<>>
  /\ ptrs = <<>>
  /\ sets = <<>>
  /\ linked = {}

\* main without --reduce: generate all the elements of the monoid.
Generate(n) ==
  /\ pc = "start"
  /\ generators' = n
  /\ monoid' = generate_monoid(n)
  /\ pc' = "generated"
  /\ UNCHANGED <<word, steps, again, shorter, steps_shorter, left, right, merged>>
  /\ UNCHANGED <<mainVars, callVars, unionVars>>

\* main with --reduce: reduce the given word.
Reduce(w) ==
  /\ pc = "generated"
  /\ word' = w
  /\ steps' = reduce(w)
  /\ pc' = "reduced"
  /\ UNCHANGED <<generators, monoid, again, shorter, steps_shorter, left, right, merged>>
  /\ UNCHANGED <<mainVars, callVars, unionVars>>

\* reduce applied to the word at position p of the generated list.
ReduceGenerated(p) ==
  /\ pc = "generated"
  /\ p \in 1..Len(monoid)
  /\ word' = monoid[p]
  /\ steps' = reduce(monoid[p])
  /\ pc' = "reduced"
  /\ UNCHANGED <<generators, monoid, again, shorter, steps_shorter, left, right, merged>>
  /\ UNCHANGED <<mainVars, callVars, unionVars>>

\* reduce applied to its own output.
ReduceAgain ==
  /\ pc = "reduced"
  /\ ~IsPanic(steps)
  /\ again' = reduce(steps.end)
  /\ pc' = "again"
  /\ UNCHANGED <<generators, monoid, word, steps, shorter, steps_shorter, left, right, merged>>
  /\ UNCHANGED <<mainVars, callVars, unionVars>>

\* word = l.m.m.r with l = word[..i] and m of length k: reduce l.m.r.
ReduceUnsquared(i, k) ==
  /\ pc = "reduced"
  /\ i + 2 * k <= Len(word)
  /\ SubSeq(word, i + 1, i + k) = SubSeq(word, i + k + 1, i + 2 * k)
  /\ shorter' = SubSeq(word, 1, i + k) \o SubSeq(word, i + 2 * k + 1, Len(word))
  /\ steps_shorter' = reduce(shorter')
  /\ pc' = "unsquared"
  /\ UNCHANGED <<generators, monoid, word, steps, again, left, right, merged>>
  /\ UNCHANGED <<mainVars, callVars, unionVars>>

\* merge applied to a pair of words.
Merge(l, r) ==
  /\ pc = "start"
  /\ left' = l
  /\ right' = r
  /\ merged' = merge(l, r)
  /\ pc' = "merged"
  /\ UNCHANGED <<generators, monoid, word, steps, again, shorter, steps_shorter>>
  /\ UNCHANGED <<mainVars, callVars, unionVars>>

\* The strings given to --reduce: 'a', 'b', and the characters '{' (the
\* byte after 'z') and 'A' (a byte below 'a') outside the alphabet.
InputBytes == {ByteA, ByteA + 1, ByteA + 26, ByteA - 32}
Inputs == UNION {[1..k -> InputBytes] : k \in 0..MaxInputLen}

\* main with --reduce reduce_me: parse the string, reduce the word, print
\* the reduced word.  NoWord as output stands for a run that aborted.
MainReduce(s, checks) ==
  /\ pc = "start"
  /\ input' = s
  /\ overflow_checks' = checks
  /\ word' = str_to_word_in_build(s, checks)
  /\ steps' = IF word' = NoWord THEN PANIC ELSE reduce(word')
  /\ output' = IF IsPanic(steps') \/ ~Renderable(steps'.end)
               THEN NoWord
               ELSE word_to_str(steps'.end)
  /\ pc' = "printed"
  /\ UNCHANGED <<generators, monoid, again, shorter, steps_shorter,
                 left, right, merged, callVars, unionVars>>

\* find_u applied to x and y with alph(y) <= alph(x).
FindU(x, y) ==
  /\ pc = "start"
  /\ Range(y) \subseteq Range(x)
  /\ args' = <<x, y>>
  /\ result' = find_u(x, y)
  /\ pc' = "find_u"
  /\ UNCHANGED <<generators, monoid, word, steps, again, shorter, steps_shorter,
                 left, right, merged, mainVars, unionVars>>

\* remove_middle applied to l, m and r with alph(l) = alph(r) and
\* alph(m) <= alph(l).
RemoveMiddle(l, m, r) ==
  /\ pc = "start"
  /\ Range(l) = Range(r)
  /\ Range(m) \subseteq Range(l)
  /\ args' = <<l, m, r>>
  /\ result' = remove_middle(l, m, r)
  /\ pc' = "remove_middle"
  /\ UNCHANGED <<generators, monoid, word, steps, again, shorter, steps_shorter,
                 left, right, merged, mainVars, unionVars>>

Next ==
  \/ \E x \in Words(DefaultGenerators, MaxFindLen),
        y \in Words(DefaultGenerators, MaxFindLen) : FindU(x, y)
  \/ \E l \in Words(DefaultGenerators, MaxMiddleLen),
        m \in Words(DefaultGenerators, MaxMiddleLen),
        r \in Words(DefaultGenerators, MaxMiddleLen) : RemoveMiddle(l, m, r)
  \/ \E s \in Inputs, checks \in BOOLEAN : MainReduce(s, checks)
  \/ \E n \in 0..DefaultGenerators : Generate(n)
  \/ \E w \in Words(generators, MaxLen) : Reduce(w)
  \/ \E p \in 1..Len(monoid) : ReduceGenerated(p)
  \/ ReduceAgain
  \/ \E i \in 0..MaxLen, k \in 1..MaxLen : ReduceUnsquared(i, k)
  \/ \E l \in Words(DefaultGenerators, MaxMergeLen),
        r \in Words(DefaultGenerators, MaxMergeLen) : Merge(l, r)

Spec == Init /\ [][Next]_vars

----------------------------------------------------------------------------
(* Union find (the exploratory verifier).  Keys are 0-based: the word of  *)
(* key k is rev_map[k + 1] and its pointer ptrs[k + 1].  rep_map is the   *)
(* inverse of rev_map.                                                     *)

\* rep_map.get(v): the key of a registered word, or NoIndex.
rep_map_get(revs, v) ==
  LET hits == {k \in 1..Len(revs) : revs[k] = v}
  IN  IF hits = {} THEN NoIndex ELSE Min(hits) - 1

\* key_for: the Union after the call; the key returned is
\* rep_map_get of it.
Union_key_for(revs, ps, v) ==
  IF rep_map_get(revs, v) # NoIndex
  THEN [rev_map |-> revs, ptrs |-> ps]
  ELSE [rev_map |-> Append(revs, v), ptrs |-> Append(ps, Len(revs))]

\* The first loops of union: the end of the chain of key, or NoIndex when
\* the assertion ptrs[tgt] < tgt fails.
RECURSIVE dereference(_, _)
dereference(ps, tgt) ==
  IF ps[tgt + 1] = tgt THEN tgt
  ELSE IF ~(ps[tgt + 1] < tgt) THEN NoIndex
  ELSE dereference(ps, ps[tgt + 1])

\* The last loops of union: repoint the chain of idx to tgt.
RECURSIVE repoint(_, _, _)
repoint(ps, idx, tgt) ==
  IF ps[idx + 1] # idx
  THEN repoint([ps EXCEPT ![idx + 1] = tgt], ps[idx + 1], tgt)
  ELSE [ps EXCEPT ![idx + 1] = tgt]

\* The target of union: the lowest index (src/src), the root of the
\* shortest word (src/original).
union_target(ver, revs, tgt1, tgt2) ==
  IF ver = "src"
  THEN (IF tgt1 < tgt2 THEN tgt1 ELSE tgt2)
  ELSE (IF Len(revs[tgt1 + 1]) < Len(revs[tgt2 + 1]) THEN tgt1 ELSE tgt2)

\* union: the pointers after the call, or the empty sequence when an
\* assertion failed.
Union_union(ver, revs, ps, idx1, idx2) ==
  LET tgt1 == dereference(ps, idx1)
      tgt2 == dereference(ps, idx2)
  IN  IF tgt1 = NoIndex \/ tgt2 = NoIndex THEN <<>>
      ELSE LET tgt == union_target(ver, revs, tgt1, tgt2)
           IN  repoint(repoint(ps, idx1, tgt), idx2, tgt)

\* The order of Vec<Sym>: lexicographic, a proper prefix first.
RECURSIVE WordLess(_, _)
WordLess(a, b) ==
  IF b = <<>> THEN FALSE
  ELSE IF a = <<>> THEN TRUE
  ELSE IF Head(a) # Head(b) THEN Head(a) < Head(b)
  ELSE WordLess(Tail(a), Tail(b))

\* The order of Vec<Word>.
RECURSIVE WordsLess(_, _)
WordsLess(a, b) ==
  IF b = <<>> THEN FALSE
  ELSE IF a = <<>> THEN TRUE
  ELSE IF Head(a) # Head(b) THEN WordLess(Head(a), Head(b))
  ELSE WordsLess(Tail(a), Tail(b))

\* set.sort() of a list of distinct words.
RECURSIVE sort_words(_)
sort_words(S) ==
  IF S = {} THEN <<>>
  ELSE LET least == CHOOSE x \in S : \A y \in S \ {x} : WordLess(x, y)
       IN  <<least>> \o sort_words(S \ {least})

\* sets.sort() of a list of distinct lists of words.
RECURSIVE sort_sets(_)
sort_sets(S) ==
  IF S = {} THEN <<>>
  ELSE LET least == CHOOSE x \in S : \A y \in S \ {x} : WordsLess(x, y)
       IN  <<least>> \o sort_sets(S \ {least})

\* The loop of rep_of: the key at the end of the chain of key.
RECURSIVE rep_key(_, _)
rep_key(ps, key) ==
  IF ps[key + 1] # key THEN rep_key(ps, ps[key + 1]) ELSE key

\* to_sets: the keys grouped by the key their pointer names, each group
\* as its sorted list of words, the groups sorted.
Union_to_sets(revs, ps) ==
  LET targets == {ps[k] : k \in 1..Len(ps)}
      members(tgt) == {revs[k] : k \in {j \in 1..Len(ps) : ps[j] = tgt}}
  IN  sort_sets({sort_words(members(tgt)) : tgt \in targets})

InitUnion ==
  /\ pc = "union"
  /\ version \in {"src", "original"}
  /\ rev_map = <<>>
  /\ ptrs = <<>>
  /\ sets = <<>>
  /\ linked = {}
  /\ generators = 0
  /\ monoid = <<>>
  /\ word = <<>>
  /\ steps = Steps_empty(<<>>)
  /\ again = Steps_empty(<<>>)
  /\ shorter = <<>>
  /\ steps_shorter = Steps_empty(<<>>)
  /\ left = <<>>
  /\ right = <<>>
  /\ merged = <<>>
  /\ input = <<>>
  /\ overflow_checks = FALSE
  /\ output = <<>>
  /\ args = <<>>
  /\ result = <<>>

notUnionVars == <<generators, monoid, word, steps, again, shorter, steps_shorter,
                  left, right, merged, mainVars, callVars>>

\* u.key_for(v)
KeyFor(v) ==
  /\ pc \in {"union", "sets"}
  /\ rep_map_get(rev_map, v) # NoIndex \/ Len(rev_map) < MaxKeys
  /\ LET u == Union_key_for(rev_map, ptrs, v)
     IN  rev_map' = u.rev_map /\ ptrs' = u.ptrs
  /\ pc' = "union"
  /\ UNCHANGED <<version, sets, linked, notUnionVars>>

\* u.union(idx1, idx2) for two keys that key_for returned.
Union(idx1, idx2) ==
  /\ pc \in {"union", "sets"}
  /\ idx1 < Len(rev_map)
  /\ idx2 < Len(rev_map)
  /\ LET ps == Union_union(version, rev_map, ptrs, idx1, idx2)
     IN  IF ps = <<>> /\ ptrs # <<>>
         THEN pc' = "aborted" /\ UNCHANGED <<ptrs, linked>>
         ELSE /\ ptrs' = ps
              /\ linked' = linked \cup {{idx1, idx2}}
              /\ pc' = "union"
  /\ UNCHANGED <<version, rev_map, sets, notUnionVars>>

\* u.to_sets()
ToSets ==
  /\ pc = "union"
  /\ sets' = Union_to_sets(rev_map, ptrs)
  /\ pc' = "sets"
  /\ UNCHANGED <<version, rev_map, ptrs, linked, notUnionVars>>

NextUnion ==
  \/ \E v \in Words(UnionLetters, MaxKeyLen) : KeyFor(v)
  \/ \E idx1 \in 0..(MaxKeys - 1), idx2 \in 0..(MaxKeys - 1) : Union(idx1, idx2)
  \/ ToSets

SpecUnion == InitUnion /\ [][NextUnion]_vars

----------------------------------------------------------------------------
(* Notions used by the properties. *)

\* w contains a subword m.m with m nonempty.
HasSquare(w) ==
  \E i \in 0..Len(w), k \in 1..Len(w) :
    /\ i + 2 * k <= Len(w)
    /\ SubSeq(w, i + 1, i + k) = SubSeq(w, i + k + 1, i + 2 * k)

\* The word a recorded form spells: the bracketing markers are dropped
\* and the characters are parsed back into symbols.
RECURSIVE Unbracketed(_)
Unbracketed(str) ==
  IF str = <<>> THEN <<>>
  ELSE IF Head(str) \in {LParen, RParen} THEN Unbracketed(Tail(str))
  ELSE <<Head(str)>> \o Unbracketed(Tail(str))

Spells(str) == str_to_word(Unbracketed(str))

ChainValid(d, w) ==
  /\ ~IsPanic(d)
  /\ d.start = w
  /\ IF d.steps = <<>> THEN d.end = d.start
     ELSE /\ Spells(d.steps[1][1]) = d.start
          /\ \A k \in 1..(Len(d.steps) - 1) :
               Spells(d.steps[k][2]) = Spells(d.steps[k + 1][1])
          /\ Spells(d.steps[Len(d.steps)][2]) = d.end

\* The longest k such that the last k symbols of l are the first k of r.
Overlaps(l, r) ==
  {k \in 0..Min({Len(l), Len(r)}) :
     SubSeq(l, Len(l) - k + 1, Len(l)) = SubSeq(r, 1, k)}

Reduced == pc \in {"reduced", "again", "unsquared"}

\* The word "abcacb" of the concrete scenario.
Abcacb == <<0, 1, 2, 0, 2, 1>>

----------------------------------------------------------------------------
(* Properties *)

\* C1: reduce is idempotent: reducing the end word of reduce(w) again
\* yields exactly the same word, for every word w (the empty word and
\* "abcacb" included).
C1_ReduceIdempotent ==
  pc = "again" => /\ ~IsPanic(again)
                  /\ again.start = steps.end
                  /\ again.end = steps.end

\* C1 witness: "abbabc" was reduced to the different word "abc", and
\* "abc" was reduced again to itself.
C1_Witness ==
  /\ pc = "again"
  /\ word = <<0, 1, 1, 0, 1, 2>>
  /\ steps.end = <<0, 1, 2>>
  /\ again.end = steps.end

\* "abcacb" is reduced to a word that is reduced to itself.
C1_ScenarioReached ==
  /\ pc = "again"
  /\ word = Abcacb
  /\ again.end = steps.end

\* C2: square invariance: reduce(l.m.m.r) and reduce(l.m.r) end in the
\* same word, for all l, m, r with m nonempty.
C2_SquareInvariant ==
  pc = "unsquared" => /\ ~IsPanic(steps)
                      /\ ~IsPanic(steps_shorter)
                      /\ steps_shorter.end = steps.end

\* C2 witness: a word with a square of a two-letter m inside it, and the
\* word without the square, reduce to the same word.
C2_Witness ==
  /\ pc = "unsquared"
  /\ Len(word) - Len(shorter) = 2
  /\ Len(shorter) > Len(steps.end)
  /\ steps_shorter.end = steps.end

\* C3: for every alphabet size n <= 3 and every word of length <= 6 over
\* n letters, the end word of reduce(w) is in the list generate_monoid(n).
C3_ReducedInMonoid ==
  Reduced => /\ ~IsPanic(steps)
             /\ \E p \in 1..Len(monoid) : monoid[p] = steps.end

\* C3 witness: a word of length 6 over 3 letters was reduced to a shorter
\* word of the 3-letter monoid.
C3_Witness ==
  /\ pc = "reduced"
  /\ generators = 3
  /\ Len(word) = 6
  /\ Cardinality(Range(word)) = 3
  /\ steps.end # word
  /\ \E p \in 1..Len(monoid) : monoid[p] = steps.end

\* C4: the derivation returned by reduce(w) is a valid chain: it starts at
\* w, the first before-form spells its start, every after-form spells the
\* same word as the next before-form, and the last after-form spells its
\* end (a derivation without steps ends where it starts).
C4_ChainValid ==
  /\ Reduced => ChainValid(steps, word)
  /\ pc = "again" => ChainValid(again, steps.end)
  /\ pc = "unsquared" => ChainValid(steps_shorter, shorter)

\* C4 witness: the derivation of "abbabc", which has more than one step,
\* is a valid chain.
C4_Witness ==
  /\ pc = "reduced"
  /\ word = <<0, 1, 1, 0, 1, 2>>
  /\ Len(steps.steps) > 1
  /\ ChainValid(steps, word)

\* C5: reduce never aborts: it returns a derivation for every word.
C5_ReduceNeverAborts ==
  /\ Reduced => ~IsPanic(steps)
  /\ pc = "again" => ~IsPanic(again)
  /\ pc = "unsquared" => ~IsPanic(steps_shorter)

\* C5 witness: reduce returned a derivation for "abbab", whose shortest
\* left and right subwords with all the letters ("ab" and "ab") have the
\* middle section "b" between them, so that remove_middle, find_u, find_v
\* and join ran.
C5_Witness ==
  /\ pc = "reduced"
  /\ word = <<0, 1, 1, 0, 1>>
  /\ ~IsPanic(steps)
  /\ steps.end = <<0, 1>>
  /\ Len(steps.steps) > 2

\* C6: generate_monoid(2) returns, as a set, exactly the 7 words "", "a",
\* "b", "ab", "ba", "aba", "bab", none of which contains a square.
C6_MonoidOfTwo ==
  (pc = "generated" /\ generators = 2) =>
    /\ Range(monoid) = {<<>>, <<0>>, <<1>>, <<0, 1>>, <<1, 0>>,
                        <<0, 1, 0>>, <<1, 0, 1>>}
    /\ \A p \in 1..Len(monoid) : ~HasSquare(monoid[p])

\* C6 witness: the generator was run for two letters and returned "bab".
C6_Witness ==
  /\ pc = "generated"
  /\ generators = 2
  /\ <<1, 0, 1>> \in Range(monoid)

\* C7: generate_monoid(n) has no word at two positions, and its length is
\* 1, 2, 7, 160 for n = 0, 1, 2, 3.
C7_MonoidDuplicateFree ==
  pc = "generated" =>
    /\ \A p, q \in 1..Len(monoid) : monoid[p] = monoid[q] => p = q
    /\ generators <= 3 => Len(monoid) = <<1, 2, 7, 160>>[generators + 1]

\* C7 witness: the generator was run for three letters and returned 160
\* words.
C7_Witness ==
  /\ pc = "generated"
  /\ generators = 3
  /\ Len(monoid) = 160
  /\ Cardinality(Range(monoid)) = 160

\* C8: merge(left, right) never fails and returns left without its last k
\* symbols followed by right, for the largest k such that the last k
\* symbols of left are the first k symbols of right.
C8_MergeMaximalOverlap ==
  pc = "merged" =>
    /\ merged # NoWord
    /\ merged = SubSeq(left, 1, Len(left) - Max(Overlaps(left, right))) \o right

\* C8 witness: operands with overlaps of lengths 0, 1 and 2 were merged
\* on the overlap of length 2.
C8_Witness ==
  /\ pc = "merged"
  /\ left = <<1, 0, 0>>
  /\ right = <<0, 0, 1>>
  /\ Overlaps(left, right) = {0, 1, 2}
  /\ merged = <<1, 0, 0, 1>>

\* C9: merge(x, "") = x and merge(x, x) = x for every word x.
C9_MergeBoundary ==
  pc = "merged" =>
    /\ right = <<>> => merged = left
    /\ right = left => merged = left

\* C9 witness: a three-letter word was merged with itself.
C9_Witness ==
  /\ pc = "merged"
  /\ Len(left) = 3
  /\ right = left
  /\ merged = left

\* C10: the end word of reduce(w) contains no square, for every word w.
C10_NormalFormSquareFree ==
  /\ Reduced => (~IsPanic(steps) /\ ~HasSquare(steps.end))
  /\ pc = "again" => (~IsPanic(again) /\ ~HasSquare(again.end))
  /\ pc = "unsquared" => (~IsPanic(steps_shorter) /\ ~HasSquare(steps_shorter.end))

\* C10 witness: a word with a square was reduced to a word without one.
C10_Witness ==
  /\ pc = "reduced"
  /\ HasSquare(word)
  /\ Len(steps.end) > 3
  /\ ~HasSquare(steps.end)

\* A character of s is outside 'a'..'z'.
OutsideAlphabet(s) == \E k \in 1..Len(s) : s[k] \notin ByteA..(ByteA + 25)

\* C11: given a string with a character outside 'a'..'z', the word parser
\* rejects the input: it does not return a word whose symbols stand for
\* such characters, and nothing is reduced.
C11_BadInputRejected ==
  (pc = "printed" /\ OutsideAlphabet(input)) => word = NoWord

\* The inputs within the alphabet are parsed, reduced and printed.
C11_GoodInputPrinted ==
  (pc = "printed" /\ ~OutsideAlphabet(input)) =>
    /\ word = [k \in 1..Len(input) |-> input[k] - ByteA]
    /\ output = word_to_str(reduce(word).end)

\* C12: for all words x and y, y possibly empty, with every symbol of y
\* in x, find_u(x, y) returns a derivation from x to x.y.u together with
\* u (the join of the recorded steps succeeds: each step starts at the
\* left part followed by the right part that the step before ended at).
C12_FindUPostcondition ==
  pc = "find_u" =>
    /\ ~IsPanic(result.steps)
    /\ result.steps.start = args[1]
    /\ result.steps.end = args[1] \o args[2] \o result.word

\* The postcondition of find_u for the nonempty words y.
C12_FindUNonEmptyY ==
  (pc = "find_u" /\ args[2] # <<>>) =>
    /\ ~IsPanic(result.steps)
    /\ result.steps.start = args[1]
    /\ result.steps.end = args[1] \o args[2] \o result.word
    /\ Len(result.steps.steps) = Len(args[2])
    /\ ChainValid(result.steps, args[1])

\* find_u aborts on every empty y.
C12_FindUEmptyYAborts ==
  (pc = "find_u" /\ args[2] = <<>>) => IsPanic(result.steps)

\* The words the six fragments of remove_middle(l, m, r) go through.
MiddleWords(l, m, r) ==
  LET u == find_u(l, m \o r).word
      v == find_v(r, l).word
  IN  << l \o m \o r,
         l \o m \o v \o l \o r,
         l \o m \o v \o l \o r \o l \o r,
         l \o m \o r \o l \o r,
         l \o m \o r \o l \o m \o r \o u \o r,
         l \o m \o r \o u \o r,
         l \o r >>

MiddlePostcondition(l, m, r, d) ==
  LET parts == remove_middle_parts(l, m, r)
      ws == MiddleWords(l, m, r)
  IN  /\ ~IsPanic(d)
      /\ d.start = l \o m \o r
      /\ d.end = l \o r
      /\ Len(parts) = 6
      /\ \A k \in 1..6 : parts[k].start = ws[k] /\ parts[k].end = ws[k + 1]

\* C13: for all words l, m, r where l and r have the same letters and
\* every letter of m is among them, remove_middle(l, m, r) returns a
\* derivation from l.m.r to l.r, and its six fragments go through
\* l.m.r, l.m.v.l.r, l.m.v.l.r.l.r, l.m.r.l.r, l.m.r.l.m.r.u.r, l.m.r.u.r
\* and l.r, so that join never aborts.
C13_RemoveMiddlePostcondition ==
  pc = "remove_middle" => MiddlePostcondition(args[1], args[2], args[3], result)

\* The postcondition of remove_middle when l and r are not empty.
C13_RemoveMiddleNonEmptyLR ==
  (pc = "remove_middle" /\ args[1] # <<>>) =>
    MiddlePostcondition(args[1], args[2], args[3], result)

\* One recorded step: both forms have one bracketed fragment between the
\* same contexts, the fragment is not empty, and one fragment is the
\* square of the other.
StepShape(step) ==
  LET before == step[1]
      after == step[2]
      lp(f) == {k \in 1..Len(f) : f[k] = LParen}
      rp(f) == {k \in 1..Len(f) : f[k] = RParen}
      one(f) == /\ Cardinality(lp(f)) = 1
                /\ Cardinality(rp(f)) = 1
                /\ Min(lp(f)) < Min(rp(f))
      c1(f) == SubSeq(f, 1, Min(lp(f)) - 1)
      mid(f) == SubSeq(f, Min(lp(f)) + 1, Min(rp(f)) - 1)
      c2(f) == SubSeq(f, Min(rp(f)) + 1, Len(f))
  IN  /\ one(before)
      /\ one(after)
      /\ c1(before) = c1(after)
      /\ c2(before) = c2(after)
      /\ mid(before) # <<>>
      /\ mid(after) # <<>>
      /\ \/ mid(after) = mid(before) \o mid(before)
         \/ mid(before) = mid(after) \o mid(after)

AllStepShapes(d) == \A k \in 1..Len(d.steps) : StepShape(d.steps[k])

\* C14: every step of the derivation returned by reduce(w) is one
\* squaring c1(m)c2 -> c1(mm)c2 or one unsquaring c1(mm)c2 -> c1(m)c2 with
\* the same contexts on both sides and a nonempty m; the derivations that
\* find_u and remove_middle build with prefix, suffix, join, time_rev and
\* word_rev have that shape too.
C14_StepsAreRewrites ==
  /\ Reduced => AllStepShapes(steps)
  /\ pc = "again" => AllStepShapes(again)
  /\ pc = "unsquared" => AllStepShapes(steps_shorter)
  /\ pc = "find_u" => AllStepShapes(result.steps)
  /\ pc = "remove_middle" => AllStepShapes(result)

\* C14 witness: the derivation of "abbab" has squarings and unsquarings,
\* among them steps mirrored by word_rev, all of the shape.
C14_Witness ==
  /\ pc = "reduced"
  /\ word = <<0, 1, 1, 0, 1>>
  /\ Len(steps.steps) > 2
  /\ \E k \in 1..Len(steps.steps) : Len(steps.steps[k][2]) > Len(steps.steps[k][1])
  /\ \E k \in 1..Len(steps.steps) : Len(steps.steps[k][2]) < Len(steps.steps[k][1])
  /\ AllStepShapes(steps)

\* C15: every word g of generate_monoid(n), n <= 3, is in normal form:
\* reduce(g) ends in g itself.  With C3, the words of generate_monoid(n)
\* are then exactly the end words of reduce over the words on n letters.
C15_GeneratedAreNormalForms ==
  (Reduced /\ \E p \in 1..Len(monoid) : monoid[p] = word) =>
    /\ ~IsPanic(steps)
    /\ steps.end = word

\* C15 witness: one of the longest words of the 3-letter monoid (8
\* letters) was reduced to itself.
C15_Witness ==
  /\ pc = "reduced"
  /\ generators = 3
  /\ Len(word) = 8
  /\ \E p \in 1..Len(monoid) : monoid[p] = word
  /\ steps.end = word

\* The keys connected to the keys of S by the unions made so far.
RECURSIVE Component(_)
Component(S) ==
  LET more == S \cup UNION {pair \in linked : pair \cap S # {}}
  IN  IF more = S THEN S ELSE Component(more)

Connected(k1, k2) == k2 \in Component({k1})

\* The returned set that holds the word of key k, as a set of positions.
SetsOf(k) == {p \in 1..Len(sets) : rev_map[k + 1] \in Range(sets[p])}

\* C16: after any sequence of key_for and union calls in which no
\* assertion of union failed, to_sets returns the partition of the
\* registered words into the classes of the unions made: every registered
\* word is in exactly one returned set, and two words are in the same
\* returned set exactly when their keys are connected by unions.
C16_ToSetsIsPartition ==
  pc = "sets" =>
    /\ \A k \in 0..(Len(rev_map) - 1) : Cardinality(SetsOf(k)) = 1
    /\ \A k1, k2 \in 0..(Len(rev_map) - 1) :
         (SetsOf(k1) = SetsOf(k2)) <=> Connected(k1, k2)

\* What to_sets does return: every registered word is in exactly one
\* returned set, and two words are in the same returned set exactly when
\* their pointers name the same key.
C16_ToSetsGroupsByPointer ==
  pc = "sets" =>
    /\ \A k \in 0..(Len(rev_map) - 1) : Cardinality(SetsOf(k)) = 1
    /\ \A k1, k2 \in 0..(Len(rev_map) - 1) :
         (SetsOf(k1) = SetsOf(k2)) <=> (ptrs[k1 + 1] = ptrs[k2 + 1])
    /\ \A p \in 1..Len(sets) : sets[p] # <<>>
    /\ \A p \in 1..(Len(sets) - 1) : WordsLess(sets[p], sets[p + 1])

\* The chains of pointers do end in the classes of the unions made: two
\* keys have the same end of chain exactly when they are connected.
C16_RootsAreClasses ==
  pc \in {"union", "sets"} =>
    \A k1, k2 \in 0..(Len(rev_map) - 1) :
      (rep_key(ptrs, k1) = rep_key(ptrs, k2)) <=> Connected(k1, k2)

====
